---- MODULE Spec2Model ----
(***************************************************************************)
(* Authorization core of mcp-gsuite: the require_auth guard, setup_oauth2, *)
(* the interactive flow (start_auth_flow) with its callback listener       *)
(* (OauthListener.do_GET), and the two ways the repository's tools use the *)
(* guard: as a decorator (tools_gmail.py, tools_calendar.py) and as a call *)
(* inside the tool body (gmail_tools.py, calendar_tools.py, the tools that *)
(* server.py registers).                                                   *)
(***************************************************************************)
EXTENDS Integers, Sequences, FiniteSets, TLC

(* ------------------------------ bounds --------------------------------- *)
\* last instant of the model's clock
MaxTime == 1
\* HTTP requests the callback listener receives in one interactive flow
MaxRequests == 2
\* message ids one bulk_get_gmail_emails call is given
MaxIds == 3
\* characters of the data decode_base64_data is given
MaxB64Len == 4
\* attachments one bulk_save_gmail_attachments call is given
MaxItems == 2

(* ------------------------------ values --------------------------------- *)
\* concurrent tool invocations (threads of the host process)
Callers == {1, 2}

Identities == {"a@x.com", "b@x.com"}

\* the account lists .gauth.json may hold
AccountConfigs == { {}, {"a@x.com"}, {"a@x.com", "b@x.com"} }

\* Python's None, as kwargs.get returns it for an absent key
None == "<None>"

USER_ID_ARG == "__user_id__"

\* an absent credential (get_stored_credentials returned None)
NoCred == [present |-> FALSE, token |-> 0, expiry |-> 0]

\* a credential: its access token, named by the expiry the provider issued
\* it with, and its expiry
Cred(e) == [present |-> TRUE, token |-> e, expiry |-> e]

\* expiry of the credentials found on disk at start
InitExpiry == 1

\* lifetime of an access token the provider issues: longer than the clock runs
TokenLifetime == MaxTime + 1

\* authorization codes a callback may carry: "XYZ" is the code the provider
\* issued to the account a@x.com, "BAD" a code the provider rejects
Codes == {"XYZ", "BAD"}

\* the account the provider issued the code for
CodeOwner(code) == "a@x.com"

\* whether the provider accepts the code in an exchange
CodeAccepted(code) == code = "XYZ"

\* request paths and raw query strings (sequences of <<key, value>> pairs)
Paths == {"/code", "/other"}

Queries ==
  { <<>>, << <<"code", "">> >>,
    << <<"code", "XYZ">> >>, << <<"code", "BAD">> >> }

\* the calls a client makes: positional arguments and keyword arguments
KwCall(u) == [args |-> <<>>, kwargs |-> (USER_ID_ARG :> u @@ "query" :> "q")]

CallInputs ==
  { KwCall(u) : u \in Identities \cup {""} }
    \cup { [args |-> <<>>, kwargs |-> ("query" :> "q")],
           [args |-> <<"a@x.com">>, kwargs |-> ("query" :> "q")] }

\* FastMCP passes the validated tool arguments by keyword
RegisteredInputs == { KwCall(u) : u \in Identities \cup {""} }

NoCall == [args |-> <<>>, kwargs |-> <<>>]

(* ------------------------------- state --------------------------------- *)
VARIABLES
  accounts,          \* gauth.get_account_info(): the configured identities
  store,             \* the credential store: identity -> credential or NoCred
  now,               \* the clock
  pc,                \* each invocation's position
  style,             \* "decorated" (tools_gmail.py) or "registered" (gmail_tools.py)
  call,              \* the invocation's arguments
  user_id,           \* the wrapper's user_id, passed on to setup_oauth2
  credentials,       \* setup_oauth2's local variable
  expiredAtLoad,     \* credentials.access_token_expired at line 66
  ev,                \* what the invocation did so far, in order
  funcCalls,         \* the calls the wrapped operation received
  outcome,           \* what the invocation gave its caller
  returnedBefore,    \* the invocations whose setup_oauth2 had returned when
                     \* this one was made
  server,            \* owner of the HTTPServer bound to port 4100, 0 if none
  shutdown_request,  \* the server's shutdown flag
  threads,           \* shutdown threads started and not yet run
  requests,          \* requests the listener handled in this flow
  lastReq,           \* the last request handled and its response status
  bpc,               \* bulk_get_gmail_emails: position ("off" when not run)
  email_ids,         \* bulk_get_gmail_emails: the ids it was given
  fetched,           \* the ids the service was asked for, in order
  found,             \* for each fetch, whether the service found the message
  results,           \* bulk_get_gmail_emails: its results list
  ret,               \* bulk_get_gmail_emails: what it returned
  tpc,               \* the other Gmail tools: position ("off" when not run)
  targs,             \* the tool's arguments
  calls,             \* the calls the tool made to the Gmail service, in order
  files,             \* the files on disk, by path
  tresults,          \* bulk_save_gmail_attachments: its results list
  tret               \* what the tool returned or raised

vars ==
  << accounts, store, now, pc, style, call, user_id, credentials, expiredAtLoad,
     ev, funcCalls, outcome, returnedBefore, server, shutdown_request, threads,
     requests, lastReq, bpc, email_ids, fetched, found, results, ret,
     tpc, targs, calls, files, tresults, tret >>

listenerVars == << server, shutdown_request, threads, requests, lastReq >>

bulkVars == << bpc, email_ids, fetched, found, results, ret >>

NoRet == [kind |-> "none", text |-> "", list |-> <<>>]

toolVars == << tpc, targs, calls, files, tresults, tret >>

\* no Gmail tool other than bulk_get_gmail_emails is running
ToolsOff ==
  /\ tpc = "off"
  /\ targs = <<>>
  /\ calls = <<>>
  /\ files = <<>>
  /\ tresults = <<>>
  /\ tret = NoRet

NoReq == [path |-> "", query |-> <<>>, status |-> 0]

NoOutcome == [kind |-> "none", err |-> "", value |-> <<>>]

Return(v) == [kind |-> "return", err |-> "", value |-> <<v>>]

Raise(e) == [kind |-> "raise", err |-> e, value |-> <<>>]

\* an entry of ev: what was done, and to what
E(what, arg) == <<what, arg>>

\* how many entries of the log s say `what`
Count(s, what) == Cardinality({i \in DOMAIN s : s[i][1] = what})

\* the positions of the entries of s that say `what`
Pos(s, what) == {i \in DOMAIN s : s[i][1] = what}

Init ==
  /\ accounts \in AccountConfigs
  /\ store \in [Identities -> {NoCred, Cred(InitExpiry)}]
  /\ \A i \in Identities \ accounts : store[i] = NoCred
  /\ now = 0
  /\ pc = [c \in Callers |-> "idle"]
  /\ style = [c \in Callers |-> "none"]
  /\ call = [c \in Callers |-> NoCall]
  /\ user_id = [c \in Callers |-> None]
  /\ credentials = [c \in Callers |-> NoCred]
  /\ expiredAtLoad = [c \in Callers |-> FALSE]
  /\ ev = [c \in Callers |-> <<>>]
  /\ funcCalls = [c \in Callers |-> <<>>]
  /\ outcome = [c \in Callers |-> NoOutcome]
  /\ returnedBefore = [c \in Callers |-> {}]
  /\ server = 0
  /\ shutdown_request = FALSE
  /\ threads = 0
  /\ requests = 0
  /\ lastReq = NoReq
  /\ bpc = "off"
  /\ email_ids = <<>>
  /\ fetched = <<>>
  /\ found = <<>>
  /\ results = <<>>
  /\ ret = NoRet
  /\ ToolsOff

(* ----------------------------- helpers --------------------------------- *)
\* the failures the code raises
ErrMissing == "Missing required argument: __user_id__"

ErrNoAccounts == "No accounts specified in .gauth.json"

ErrUnknown == "Account for email not specified in .gauth.json"

ErrRefresh == "refresh exchange failed"

ErrUserInfo == "user info request failed"

ErrBind == "OSError: address already in use"

\* a lookup that takes an absent identity to be the first account
kwargs_get_default(kwargs, key) ==
  IF key \in DOMAIN kwargs THEN kwargs[key] ELSE "a@x.com"

\* kwargs.get(key): the value, None when the key is absent
kwargs_get(kwargs, key) == IF key \in DOMAIN kwargs THEN kwargs[key] ELSE None

\* a test that refuses only an absent identity
Falsy_absent(u) == u = None

\* `not user_id`: None and the empty string are falsy
Falsy(u) == u \in {None, ""}

\* a lookup that lets every identity through
IsKnown_any(u, accts) == TRUE

\* `user_id not in [a.email for a in accounts]`, negated
IsKnown(u, accts) == u \in accts

\* a credential that counts as expired whatever its expiry
Expired_always(cred, t) == cred.present

\* credentials.access_token_expired at the instant t
Expired(cred, t) == cred.present /\ cred.expiry <= t

\* the credential the provider issues at the instant t
Issued(t) == Cred(t + TokenLifetime)

\* a call that takes the identity out of the keyword arguments
FuncArgs_popped(cl) ==
  [args |-> cl.args,
   kwargs |-> [k \in DOMAIN cl.kwargs \ {USER_ID_ARG} |-> cl.kwargs[k]]]

\* what the wrapped operation is called with: func(*args, **kwargs)
FuncArgs(cl) == [args |-> cl.args, kwargs |-> cl.kwargs]

\* what the wrapped operation returns for a call
FuncResult(cl) == [result_of |-> cl]

Log(c, entries) == ev' = [ev EXCEPT ![c] = @ \o entries]

\* the invocation ends by raising e
Fail(c, e) ==
  /\ pc' = [pc EXCEPT ![c] = "done"]
  /\ outcome' = [outcome EXCEPT ![c] = Raise(e)]

(* ------------------------------ require_auth --------------------------- *)
\* a client calls a tool of tools_gmail.py / tools_calendar.py, which is the
\* wrapper require_auth returned. Lines 77-80: the identity is read from the
\* keyword arguments, a missing one is refused, else setup_oauth2 is entered
wrapper(c) ==
  /\ pc[c] = "idle"
  /\ \E cl \in CallInputs :
       LET u == kwargs_get(cl.kwargs, USER_ID_ARG) IN
         /\ call' = [call EXCEPT ![c] = cl]
         /\ user_id' = [user_id EXCEPT ![c] = u]
         /\ IF Falsy(u)
              THEN Fail(c, ErrMissing)
              ELSE /\ pc' = [pc EXCEPT ![c] = "setup_oauth2"]
                   /\ UNCHANGED outcome
  /\ style' = [style EXCEPT ![c] = "decorated"]
  /\ returnedBefore' =
       [returnedBefore EXCEPT ![c] = {d \in Callers : Count(ev[d], "return") > 0}]
  /\ UNCHANGED << accounts, store, now, credentials, expiredAtLoad, ev,
                  funcCalls, listenerVars, bulkVars, toolVars >>

\* wrapper, line 81: return func(*args, **kwargs)
wrapper_func(c) ==
  /\ pc[c] = "authorized"
  /\ funcCalls' = [funcCalls EXCEPT ![c] = Append(@, FuncArgs(call[c]))]
  /\ outcome' = [outcome EXCEPT ![c] = Return(FuncResult(FuncArgs(call[c])))]
  /\ pc' = [pc EXCEPT ![c] = "done"]
  /\ UNCHANGED << toolVars, bulkVars, returnedBefore, accounts, store, now, style, call, user_id, credentials,
                  expiredAtLoad, ev, listenerVars >>

\* a client calls a tool registered by register_gmail_tools or
\* register_calendar_tools (the tools of server.py), e.g. gmail_tools.py
\* lines 44-58. Line 44 is the statement require_auth(__user_id__):
\* require_auth (lines 74-83) defines the wrapper closure around its argument
\* and returns it; nothing calls the closure, so neither line 77 nor
\* setup_oauth2 runs, and the value is dropped. Lines 45-58 then build the
\* service for the identity and run the operation
registered_tool(c) ==
  /\ pc[c] = "idle"
  /\ \E cl \in RegisteredInputs :
       /\ call' = [call EXCEPT ![c] = cl]
       /\ user_id' = [user_id EXCEPT ![c] = cl.kwargs[USER_ID_ARG]]
       /\ funcCalls' = [funcCalls EXCEPT ![c] = Append(@, FuncArgs(cl))]
       /\ outcome' = [outcome EXCEPT ![c] = Return(FuncResult(FuncArgs(cl)))]
  /\ style' = [style EXCEPT ![c] = "registered"]
  /\ returnedBefore' =
       [returnedBefore EXCEPT ![c] = {d \in Callers : Count(ev[d], "return") > 0}]
  /\ pc' = [pc EXCEPT ![c] = "done"]
  /\ UNCHANGED << accounts, store, now, credentials, expiredAtLoad, ev,
                  listenerVars, bulkVars, toolVars >>

(* ------------------------------ setup_oauth2 --------------------------- *)
\* lines 56-60: the account list is read and the identity looked up in it
setup_oauth2(c) ==
  /\ pc[c] = "setup_oauth2"
  /\ Log(c, << E("get_account_info", "") >>)
  /\ IF accounts = {}
       THEN Fail(c, ErrNoAccounts)
       ELSE IF ~IsKnown(user_id[c], accounts)
              THEN Fail(c, ErrUnknown)
              ELSE /\ pc' = [pc EXCEPT ![c] = "get_stored_credentials"]
                   /\ UNCHANGED outcome
  /\ UNCHANGED << toolVars, bulkVars, returnedBefore, accounts, store, now, style, call, user_id, credentials,
                  expiredAtLoad, funcCalls, listenerVars >>

\* where line 63 sends a call that loaded cred
AfterLoad(cred) == IF ~cred.present THEN "start_auth_flow" ELSE "get_user_info"

\* lines 62-67: the stored credential is loaded; none starts the interactive
\* flow, an expired one is only logged
get_stored_credentials(c) ==
  /\ pc[c] = "get_stored_credentials"
  /\ Log(c, << E("get_stored_credentials", user_id[c]) >>)
  /\ credentials' = [credentials EXCEPT ![c] = store[user_id[c]]]
  /\ expiredAtLoad' = [expiredAtLoad EXCEPT ![c] = Expired(store[user_id[c]], now)]
  /\ pc' = [pc EXCEPT ![c] = AfterLoad(store[user_id[c]])]
  /\ UNCHANGED << toolVars, bulkVars, returnedBefore, accounts, store, now, style, call, user_id, funcCalls, outcome,
                  listenerVars >>

\* a refused refresh that falls back to the interactive flow
RefreshFailed_fallback(c) ==
  /\ pc' = [pc EXCEPT ![c] = "start_auth_flow"]
  /\ UNCHANGED outcome

\* line 70 when the refresh exchange is refused: nothing catches the
\* exception, so it leaves get_user_info, setup_oauth2 and the wrapper
RefreshFailed(c) == Fail(c, ErrRefresh)

\* line 70, gauth.get_user_info, first half: the authorized transport
\* refreshes an expired access token with one refresh exchange, which the
\* provider grants or refuses
get_user_info_refresh(c) ==
  /\ pc[c] = "get_user_info"
  /\ IF Expired(credentials[c], now)
       THEN /\ Log(c, << E("refresh", user_id[c]) >>)
            /\ \/ /\ credentials' = [credentials EXCEPT ![c] = Issued(now)]
                  /\ pc' = [pc EXCEPT ![c] = "userinfo"]
                  /\ UNCHANGED outcome
               \/ /\ RefreshFailed(c)
                  /\ UNCHANGED credentials
       ELSE /\ pc' = [pc EXCEPT ![c] = "userinfo"]
            /\ UNCHANGED << ev, credentials, outcome >>
  /\ UNCHANGED << toolVars, bulkVars, returnedBefore, accounts, store, now, style, call, user_id, expiredAtLoad,
                  funcCalls, listenerVars >>

\* a setup that saves only a credential it has refreshed
AfterVerify_refreshed(wasExpired) ==
  IF wasExpired THEN "store_credentials" ELSE "authorized"

\* lines 70-71: when get_user_info has returned, the credentials are stored,
\* whether they were expired or not
AfterVerify(wasExpired) == "store_credentials"

\* line 70, gauth.get_user_info, second half: the user-info request, which
\* the provider answers or fails
get_user_info(c) ==
  /\ pc[c] = "userinfo"
  /\ Log(c, << E("get_user_info", user_id[c]) >>)
  /\ \/ /\ pc' = [pc EXCEPT ![c] = AfterVerify(expiredAtLoad[c])]
        /\ UNCHANGED outcome
     \/ Fail(c, ErrUserInfo)
  /\ UNCHANGED << toolVars, bulkVars, returnedBefore, accounts, store, now, style, call, user_id, credentials,
                  expiredAtLoad, funcCalls, listenerVars >>

\* a store that keeps what it held
Stored_old(cred, old) == old

\* a write that has replaced the token and not yet the expiry
Stored_torn(cred, old) == [cred EXCEPT !.expiry = old.expiry]

\* what line 71 writes to the store
Stored(cred, old) == cred

\* line 71: the credentials are stored under the identity; setup_oauth2 returns
store_credentials(c) ==
  /\ pc[c] = "store_credentials"
  /\ Log(c, << E("store_credentials", user_id[c]), E("return", "setup_oauth2") >>)
  /\ store' = [store EXCEPT ![user_id[c]] = Stored(credentials[c], @)]
  /\ pc' = [pc EXCEPT ![c] = "authorized"]
  /\ UNCHANGED << toolVars, bulkVars, returnedBefore, accounts, now, style, call, user_id, credentials, expiredAtLoad,
                  funcCalls, outcome, listenerVars >>

(* ----------------------------- start_auth_flow ------------------------- *)
\* a flow that leaves the browser for later
OpenSteps_late(u) == << E("get_authorization_url", u) >>

\* lines 41-47, in order: gauth.get_authorization_url, then the URL is
\* opened in the browser (open, or webbrowser.open)
OpenSteps(u) == << E("get_authorization_url", u), E("open", u) >>

\* lines 41-47: the authorization URL is built for the identity and opened
start_auth_flow(c) ==
  /\ pc[c] = "start_auth_flow"
  /\ Log(c, OpenSteps(user_id[c]))
  /\ pc' = [pc EXCEPT ![c] = "HTTPServer"]
  /\ UNCHANGED << toolVars, bulkVars, returnedBefore, accounts, store, now, style, call, user_id, credentials,
                  expiredAtLoad, funcCalls, outcome, listenerVars >>

\* lines 50-51: HTTPServer(("", 4100), OauthListener) binds the port, or
\* raises when another server holds it
HTTPServer(c) ==
  /\ pc[c] = "HTTPServer"
  /\ IF server = 0
       THEN /\ server' = c
            /\ shutdown_request' = FALSE
            /\ threads' = 0
            /\ requests' = 0
            /\ lastReq' = NoReq
            /\ Log(c, << E("bind", "4100") >>)
            /\ pc' = [pc EXCEPT ![c] = "serve_forever"]
            /\ UNCHANGED outcome
       ELSE /\ Log(c, << E("bind_failed", "4100") >>)
            /\ Fail(c, ErrBind)
            /\ UNCHANGED listenerVars
  /\ UNCHANGED << toolVars, bulkVars, returnedBefore, accounts, store, now, style, call, user_id, credentials,
                  expiredAtLoad, funcCalls >>

(* ------------------------------ OauthListener -------------------------- *)
\* a parse that keeps the pairs with a blank value
parse_qs_blanks(q) ==
  LET keys == {q[i][1] : i \in DOMAIN q}
      vals(k) == LET sel == SelectSeq(q, LAMBDA p : p[1] = k)
                 IN  [i \in 1..Len(sel) |-> sel[i][2]]
  IN  [k \in keys |-> vals(k)]

\* urllib.parse.parse_qs: the values of every key, in order; pairs with a
\* blank value are dropped
parse_qs(q) ==
  LET kept == SelectSeq(q, LAMBDA p : p[2] # "")
      keys == {kept[i][1] : i \in DOMAIN kept}
      vals(k) == LET sel == SelectSeq(kept, LAMBDA p : p[1] = k)
                 IN  [i \in 1..Len(sel) |-> sel[i][2]]
  IN  [k \in keys |-> vals(k)]

\* a listener that serves every path
IsCallbackPath_any(path) == TRUE

\* line 16: the one path the listener serves
IsCallbackPath(path) == path = "/code"

\* line 22, negated: the query carries a code
HasCode(query) == "code" \in DOMAIN query

\* the status do_GET answers a request with (lines 16-27)
Status(path, q) ==
  IF ~IsCallbackPath(path) THEN 404
  ELSE IF ~HasCode(parse_qs(q)) THEN 400
  ELSE 200

\* whether do_GET goes on to lines 32-37 after the response
Exchanges(path, q) == Status(path, q) = 200

\* line 33: query["code"][0], the first value of the code parameter
CallbackCode(query) == query["code"][1]

\* a serving loop that ends whatever the flag
LoopExits_always(flag) == TRUE

\* the serving loop of line 52 ends when it sees the shutdown flag
LoopExits(flag) == flag

\* a handler that starts no thread
StartThread_never(n) == n

\* lines 35-37: threading.Thread(target=self.server.shutdown) is started
StartThread(n) == n + 1

\* a handler that starts the shutdown thread as soon as it has responded
HandlerSteps_early(code) ==
  << E("respond", "200"), E("thread_start", ""), E("flush", ""),
     E("exchange", code) >>
    \o (IF CodeAccepted(code)
          THEN << E("store_credentials", CodeOwner(code)) >>
          ELSE <<>>)

\* a handler that starts the shutdown thread whatever the exchange came to
HandlerSteps_finally(code) ==
  << E("respond", "200"), E("flush", ""), E("exchange", code) >>
    \o (IF CodeAccepted(code)
          THEN << E("store_credentials", CodeOwner(code)) >>
          ELSE <<>>)
    \o << E("thread_start", "") >>

\* lines 27-37, what the handler does with a code, in order: the 200 response
\* and its body, the flush, gauth.get_credentials (the exchange, and the
\* store of the credential it yields), the start of the shutdown thread.
\* When the exchange raises, the handler ends there
HandlerSteps(code) ==
  << E("respond", "200"), E("flush", ""), E("exchange", code) >>
    \o (IF CodeAccepted(code)
          THEN << E("store_credentials", CodeOwner(code)), E("thread_start", "") >>
          ELSE <<>>)

\* lines 14-37: one request, handled by the serving loop of the flow's owner.
\* gauth.get_credentials exchanges the code and stores the credential it
\* yields; when it raises, the handler ends there and the loop goes on
do_GET(path, q) ==
  /\ server # 0
  /\ pc[server] = "serve_forever"
  /\ ~shutdown_request
  /\ requests < MaxRequests
  /\ requests' = requests + 1
  /\ lastReq' = [path |-> path, query |-> q, status |-> Status(path, q)]
  /\ IF ~Exchanges(path, q)
       THEN UNCHANGED << store, threads, ev >>
       ELSE LET code == CallbackCode(parse_qs(q)) IN
            IF CodeAccepted(code)
              THEN /\ Log(server, HandlerSteps(code))
                   /\ store' = [store EXCEPT ![CodeOwner(code)] = Issued(now)]
                   /\ threads' = StartThread(threads)
              ELSE /\ Log(server, HandlerSteps(code))
                   /\ UNCHANGED << store, threads >>
  /\ UNCHANGED << toolVars, bulkVars, returnedBefore, accounts, now, pc, style, call, user_id, credentials,
                  expiredAtLoad, funcCalls, outcome, server, shutdown_request >>

\* lines 35-37, the thread's body: server.shutdown() raises the flag
shutdown(c) ==
  /\ server = c
  /\ threads > 0
  /\ threads' = threads - 1
  /\ shutdown_request' = TRUE
  /\ UNCHANGED << toolVars, bulkVars, returnedBefore, accounts, store, now, pc, style, call, user_id, credentials,
                  expiredAtLoad, ev, funcCalls, outcome, server, requests, lastReq >>

\* line 52: the loop sees the flag, serve_forever returns, and with it
\* start_auth_flow (line 64) and setup_oauth2
serve_forever_return(c) ==
  /\ pc[c] = "serve_forever"
  /\ server = c
  /\ LoopExits(shutdown_request)
  /\ server' = 0
  /\ shutdown_request' = FALSE
  /\ threads' = 0
  /\ Log(c, << E("return", "setup_oauth2") >>)
  /\ pc' = [pc EXCEPT ![c] = "authorized"]
  /\ UNCHANGED << toolVars, bulkVars, returnedBefore, accounts, store, now, style, call, user_id, credentials,
                  expiredAtLoad, funcCalls, outcome, requests, lastReq >>

(* --------------------------------- time -------------------------------- *)
Tick ==
  /\ now < MaxTime
  /\ now' = now + 1
  /\ UNCHANGED << toolVars, bulkVars, returnedBefore, accounts, store, pc, style, call, user_id, credentials,
                  expiredAtLoad, ev, funcCalls, outcome, listenerVars >>

Next ==
  \/ \E c \in Callers : wrapper(c)
  \/ \E c \in Callers : wrapper_func(c)
  \/ \E c \in Callers : registered_tool(c)
  \/ \E c \in Callers : setup_oauth2(c)
  \/ \E c \in Callers : get_stored_credentials(c)
  \/ \E c \in Callers : get_user_info_refresh(c)
  \/ \E c \in Callers : get_user_info(c)
  \/ \E c \in Callers : store_credentials(c)
  \/ \E c \in Callers : start_auth_flow(c)
  \/ \E c \in Callers : HTTPServer(c)
  \/ \E path \in Paths, q \in Queries : do_GET(path, q)
  \/ \E c \in Callers : shutdown(c)
  \/ \E c \in Callers : serve_forever_return(c)
  \/ Tick

Spec == Init /\ [][Next]_vars

\* the shutdown thread of line 37 is a started thread and runs; the serving
\* loop of line 52 polls the shutdown flag. Requests and the invocations
\* themselves come from outside and are under no obligation to happen
FairSpec ==
  /\ Spec
  /\ \A c \in Callers : WF_vars(shutdown(c))
  /\ \A c \in Callers : WF_vars(serve_forever_return(c))

(* ------------------------- bulk_get_gmail_emails ----------------------- *)
\* message ids a client may ask for
Ids == {"e1", "e2"}

IdLists == UNION { [1..n -> Ids] : n \in 0..MaxIds }

\* what get_email_by_id_with_attachments answers to the k-th fetch when it
\* finds the message: the message and that message's attachments
ServiceEmail(id) == [id |-> id, attachments |-> <<>>]

ServiceAttachments(id, k) == << <<"att", id, k>> >>

FailedBulkText == "Failed to retrieve any emails from the provided IDs"

\* json.dumps(results, indent=2): the text of the list
Dumps(list) == [kind |-> "json", text |-> "", list |-> list]

Text(t) == [kind |-> "text", text |-> t, list |-> <<>>]

\* a loop body that puts each message in front of the earlier ones
BulkAppend_front(rs, email, attachments) ==
  IF email # <<>>
    THEN << [email[1] EXCEPT !.attachments = attachments] >> \o rs
    ELSE rs

\* gmail_tools.py lines 200-202: a message that was found (email, <<>> for
\* None) gets its attachments and is appended
BulkAppend(rs, email, attachments) ==
  IF email # <<>>
    THEN Append(rs, [email[1] EXCEPT !.attachments = attachments])
    ELSE rs

authVars ==
  << accounts, store, now, pc, style, call, user_id, credentials, expiredAtLoad,
     ev, funcCalls, outcome, returnedBefore, listenerVars >>

\* gmail_tools.py lines 188-197: the tool is called with a list of ids
bulk_get_gmail_emails ==
  /\ bpc = "idle"
  /\ \E ids \in IdLists : email_ids' = ids
  /\ bpc' = "loop"
  /\ UNCHANGED << fetched, found, results, ret, authVars, toolVars >>

\* lines 198-202, one turn of the loop: the next id is fetched, and the
\* service finds the message or answers (None, [])
bulk_fetch ==
  /\ bpc = "loop"
  /\ Len(fetched) < Len(email_ids)
  /\ LET k == Len(fetched) + 1
         id == email_ids[k]
     IN  /\ fetched' = Append(fetched, id)
         /\ \E hit \in BOOLEAN :
              /\ found' = Append(found, hit)
              /\ results' = BulkAppend(results,
                                       IF hit THEN << ServiceEmail(id) >> ELSE <<>>,
                                       IF hit THEN ServiceAttachments(id, k) ELSE <<>>)
  /\ UNCHANGED << bpc, email_ids, ret, authVars, toolVars >>

\* lines 204-207: after the loop, the failure text or the list as JSON
bulk_return ==
  /\ bpc = "loop"
  /\ Len(fetched) = Len(email_ids)
  /\ ret' = IF results = <<>> THEN Text(FailedBulkText) ELSE Dumps(results)
  /\ bpc' = "done"
  /\ UNCHANGED << email_ids, fetched, found, results, authVars, toolVars >>

InitBulk ==
  /\ accounts = {}
  /\ store = [i \in Identities |-> NoCred]
  /\ now = 0
  /\ pc = [c \in Callers |-> "idle"]
  /\ style = [c \in Callers |-> "none"]
  /\ call = [c \in Callers |-> NoCall]
  /\ user_id = [c \in Callers |-> None]
  /\ credentials = [c \in Callers |-> NoCred]
  /\ expiredAtLoad = [c \in Callers |-> FALSE]
  /\ ev = [c \in Callers |-> <<>>]
  /\ funcCalls = [c \in Callers |-> <<>>]
  /\ outcome = [c \in Callers |-> NoOutcome]
  /\ returnedBefore = [c \in Callers |-> {}]
  /\ server = 0
  /\ shutdown_request = FALSE
  /\ threads = 0
  /\ requests = 0
  /\ lastReq = NoReq
  /\ bpc = "idle"
  /\ email_ids = <<>>
  /\ fetched = <<>>
  /\ found = <<>>
  /\ results = <<>>
  /\ ret = NoRet
  /\ ToolsOff

NextBulk ==
  \/ bulk_get_gmail_emails
  \/ bulk_fetch
  \/ bulk_return

SpecBulk == InitBulk /\ [][NextBulk]_vars

(* --------------------------- decode_base64_data ------------------------ *)
\* the auth core is idle
AuthOff ==
  /\ accounts = {}
  /\ store = [i \in Identities |-> NoCred]
  /\ now = 0
  /\ pc = [c \in Callers |-> "idle"]
  /\ style = [c \in Callers |-> "none"]
  /\ call = [c \in Callers |-> NoCall]
  /\ user_id = [c \in Callers |-> None]
  /\ credentials = [c \in Callers |-> NoCred]
  /\ expiredAtLoad = [c \in Callers |-> FALSE]
  /\ ev = [c \in Callers |-> <<>>]
  /\ funcCalls = [c \in Callers |-> <<>>]
  /\ outcome = [c \in Callers |-> NoOutcome]
  /\ returnedBefore = [c \in Callers |-> {}]
  /\ server = 0
  /\ shutdown_request = FALSE
  /\ threads = 0
  /\ requests = 0
  /\ lastReq = NoReq

\* bulk_get_gmail_emails is not running
BulkOff ==
  /\ bpc = "off"
  /\ email_ids = <<>>
  /\ fetched = <<>>
  /\ found = <<>>
  /\ results = <<>>
  /\ ret = NoRet

\* characters of attachment data: two letters of the alphabet, the two
\* symbols of standard base64, the two of URL-safe base64, the padding
\* character and one character of neither alphabet
B64Chars == {"A", "Q", "+", "/", "-", "_", "=", "!"}

B64Inputs == UNION { [1..n -> B64Chars] : n \in 0..MaxB64Len }

IsB64Data(ch) == ch \in {"A", "Q", "+", "/"}

\* the six bits a character of the standard alphabet stands for
B64Value(ch) ==
  CASE ch = "A" -> 0
    [] ch = "Q" -> 16
    [] ch = "+" -> 62
    [] ch = "/" -> 63

Bytes(bs) == [kind |-> "bytes", bytes |-> bs]

B64Error == [kind |-> "raise", bytes |-> <<>>]

\* gmail_tools.py line 27: file_data.replace("-", "+").replace("_", "/")
UrlToStandard(s) ==
  [i \in DOMAIN s |-> IF s[i] = "-" THEN "+" ELSE IF s[i] = "_" THEN "/" ELSE s[i]]

\* data that is passed on as it came
Pad_none(s) == s

\* lines 28-30: '=' is added up to a multiple of four characters
Pad(s) ==
  IF Len(s) % 4 # 0
    THEN s \o [i \in 1..(4 - (Len(s) % 4)) |-> "="]
    ELSE s

\* the bytes of a run of six-bit values: three for every four values, one
\* for two left over, two for three left over
RECURSIVE BytesOf(_)
BytesOf(vals) ==
  IF Len(vals) >= 4
    THEN << (vals[1] * 4 + vals[2] \div 16) % 256,
            ((vals[2] % 16) * 16 + vals[3] \div 4) % 256,
            ((vals[3] % 4) * 64 + vals[4]) % 256 >>
           \o BytesOf(SubSeq(vals, 5, Len(vals)))
  ELSE IF Len(vals) = 3
    THEN << (vals[1] * 4 + vals[2] \div 16) % 256,
            ((vals[2] % 16) * 16 + vals[3] \div 4) % 256 >>
  ELSE IF Len(vals) = 2
    THEN << (vals[1] * 4 + vals[2] \div 16) % 256 >>
  ELSE <<>>

\* base64.b64decode(t, validate=True) from the character i on: quad is the
\* number of data characters read so far modulo four, pads the number of
\* padding characters just read, vals the six-bit values read
RECURSIVE Scan(_, _, _, _, _)
Scan(t, i, quad, pads, vals) ==
  IF i > Len(t)
    THEN IF quad # 0 THEN B64Error ELSE Bytes(BytesOf(vals))
  ELSE IF t[i] = "="
    THEN IF quad >= 2 /\ quad + pads + 1 >= 4
           THEN IF i < Len(t) THEN B64Error ELSE Bytes(BytesOf(vals))
           ELSE Scan(t, i + 1, quad, pads + 1, vals)
  ELSE IF ~IsB64Data(t[i]) \/ pads > 0
    THEN B64Error
  ELSE Scan(t, i + 1, (quad + 1) % 4, 0, Append(vals, B64Value(t[i])))

\* line 31: base64.b64decode(standard_base64_data, validate=True)
b64decode(t) ==
  IF t # <<>> /\ t[1] = "=" THEN B64Error ELSE Scan(t, 1, 0, 0, <<>>)

\* lines 26-31
decode_base64_data(file_data) == b64decode(Pad(UrlToStandard(file_data)))

\* decode_base64_data is called with some data
decode_base64_data_call ==
  /\ tpc = "idle"
  /\ tret' = decode_base64_data(targs)
  /\ tpc' = "done"
  /\ UNCHANGED << targs, calls, files, tresults, authVars, bulkVars >>

InitB64 ==
  /\ AuthOff
  /\ BulkOff
  /\ tpc = "idle"
  /\ targs \in B64Inputs
  /\ calls = <<>>
  /\ files = <<>>
  /\ tresults = <<>>
  /\ tret = NoRet

NextB64 == decode_base64_data_call

SpecB64 == InitB64 /\ [][NextB64]_vars

(* ----------- reply_gmail_email, get_gmail_attachment, bulk save -------- *)
MessageIds == {"m1", "m2"}

\* the paths a caller may ask a file to be saved at
SavePaths == {"/p1", "/p2"}

\* the data the service may hand out for an attachment: base64, URL-safe
\* base64, and data that does not decode
AttData == { << "Q", "Q" >>, << "-", "_" >>, << "Q", "!" >> }

NoFile == [exists |-> FALSE, bytes |-> <<>>]

File(bs) == [exists |-> TRUE, bytes |-> bs]

\* TextContent(type="text", text=t)
TextContent(t) == [type |-> "text", text |-> t]

\* the tool ended by raising e
RaiseT(e) == [kind |-> "raise", err |-> e]

\* gmail_tools.py line 138
FailedOriginalText(id) == << "Failed to retrieve original message with ID: ", id >>

\* a failure text that always says send
FailedReplyText_send(send) == "Failed to send reply email"

\* line 149
FailedReplyText(send) ==
  IF send THEN "Failed to send reply email" ELSE "Failed to draft reply email"

\* lines 169 and 242
FailedAttachmentText(attachment_id, message_id) ==
  << "Failed to retrieve attachment with ID: ", attachment_id,
     " from message: ", message_id >>

\* line 177
SavedToDiskText(path) == << "Attachment saved to disk: ", path >>

\* line 229
FailedMessageText(message_id) == << "Failed to retrieve message with ID: ", message_id >>

\* line 255
SavedToText(path) == << "Attachment saved to: ", path >>

\* line 262
FailedSaveText(path, e) == << "Failed to save attachment to ", path, ": ", e >>

\* line 172
AttachmentUrl(message_id, attachment_id, filename) ==
  << "attachment://gmail/", message_id, "/", attachment_id, "/", filename >>

\* a resource that carries the data in standard base64
Blob_standard(file_data) == UrlToStandard(file_data)

\* line 181: blob=file_data
Blob(file_data) == file_data

\* lines 178-185
EmbeddedResource(file_data, uri, mime_type) ==
  [kind |-> "resource", blob |-> Blob(file_data), uri |-> uri, mimeType |-> mime_type]

\* if save_to_disk: (line 173)
Truthy(x) == x # None /\ x # ""

\* with open(path, "wb") as f: f.write(bs), lines 175-176 and 250-251: the
\* file holds the bytes; or open raises and nothing changes; or open has
\* created or emptied the file and the write raises part of the way
WriteOutcomes(path, bs, fs) ==
  { [ok |-> TRUE, files |-> [fs EXCEPT ![path] = File(bs)]] }
    \cup { [ok |-> FALSE, files |-> fs] }
    \cup { [ok |-> FALSE, files |-> [fs EXCEPT ![path] = File(SubSeq(bs, 1, k))]] :
             k \in 0..(Len(bs) - 1) }

\* cc is None or a list of addresses, here of one
ReplyArgs ==
  [tool : {"reply_gmail_email"}, original_message_id : MessageIds,
   send : BOOLEAN, cc : {None, "c@x.com"}]

\* lines 118-131: the tool is called
reply_gmail_email ==
  /\ tpc = "idle"
  /\ targs' \in ReplyArgs
  /\ tpc' = "get_original"
  /\ UNCHANGED << calls, files, tresults, tret, authVars, bulkVars >>

\* lines 134-138: the original message is fetched; the service finds it or
\* answers (None, [])
reply_get_original ==
  /\ tpc = "get_original"
  /\ calls' = Append(calls, << "get_email_by_id_with_attachments",
                               targs.original_message_id >>)
  /\ \E hit \in BOOLEAN :
       IF hit
         THEN /\ tresults' = << ServiceEmail(targs.original_message_id) >>
              /\ tpc' = "create_reply"
              /\ UNCHANGED tret
         ELSE /\ tret' = Text(FailedOriginalText(targs.original_message_id))
              /\ tpc' = "done"
              /\ UNCHANGED tresults
  /\ UNCHANGED << targs, files, authVars, bulkVars >>

\* lines 141-151: the reply is created, as a draft or sent; the service
\* answers with the reply or with None
create_reply ==
  /\ tpc = "create_reply"
  /\ calls' = Append(calls, << "create_reply", tresults[1].id, targs.send, targs.cc >>)
  /\ \E made \in BOOLEAN :
       tret' = IF made
                 THEN Dumps(<< [id |-> "r1", sent |-> targs.send] >>)
                 ELSE Text(FailedReplyText(targs.send))
  /\ tpc' = "done"
  /\ UNCHANGED << targs, files, tresults, authVars, bulkVars >>

AttachmentArgs ==
  [tool : {"get_gmail_attachment"}, message_id : {"m1"}, attachment_id : {"att1"},
   mime_type : {"text/plain"}, filename : {"f.txt"},
   save_to_disk : {None, ""} \cup SavePaths]

\* lines 154-165: the tool is called
get_gmail_attachment ==
  /\ tpc = "idle"
  /\ targs' \in AttachmentArgs
  /\ tpc' = "get_attachment"
  /\ UNCHANGED << calls, files, tresults, tret, authVars, bulkVars >>

\* lines 166-173 and 178-185: the attachment is fetched; without it the
\* failure text is returned, without a path the resource
get_attachment ==
  /\ tpc = "get_attachment"
  /\ calls' = Append(calls, << "get_attachment", targs.message_id, targs.attachment_id >>)
  /\ \E hit \in BOOLEAN, attachment_data \in AttData :
       IF ~hit
         THEN /\ tret' = Text(FailedAttachmentText(targs.attachment_id, targs.message_id))
              /\ tpc' = "done"
              /\ UNCHANGED tresults
         ELSE IF Truthy(targs.save_to_disk)
           THEN /\ tresults' = << attachment_data >>
                /\ tpc' = "save_to_disk"
                /\ UNCHANGED tret
           ELSE /\ tret' = EmbeddedResource(attachment_data,
                                             AttachmentUrl(targs.message_id,
                                                           targs.attachment_id,
                                                           targs.filename),
                                             targs.mime_type)
                /\ tpc' = "done"
                /\ tresults' = << attachment_data >>
  /\ UNCHANGED << targs, files, authVars, bulkVars >>

\* lines 174-177: the data is decoded and written to the path
save_to_disk ==
  /\ tpc = "save_to_disk"
  /\ LET decoded_data == decode_base64_data(tresults[1]) IN
       IF decoded_data = B64Error
         THEN /\ tret' = RaiseT("binascii.Error")
              /\ UNCHANGED files
         ELSE \E w \in WriteOutcomes(targs.save_to_disk, decoded_data.bytes, files) :
                /\ files' = w.files
                /\ tret' = IF w.ok THEN Text(SavedToDiskText(targs.save_to_disk))
                                  ELSE RaiseT("OSError")
  /\ tpc' = "done"
  /\ UNCHANGED << targs, calls, tresults, authVars, bulkVars >>

\* the parts of a message that are attachments, as the service lists them
\* with a message: part id -> attachmentId
EmailAttachments(message_id) == [part \in {"pa"} |-> << "att", message_id >>]

PartIds == {"pa", "px"}

AttachmentInfos == [message_id : {"m1"}, part_id : PartIds, save_path : SavePaths]

BulkSaveArgs ==
  [tool : {"bulk_save_gmail_attachments"},
   attachments : UNION { [1..n -> AttachmentInfos] : n \in 0..MaxItems }]

\* lines 210-218: the tool is called
bulk_save_gmail_attachments ==
  /\ tpc = "idle"
  /\ targs' \in BulkSaveArgs
  /\ tpc' = "save_loop"
  /\ UNCHANGED << calls, files, tresults, tret, authVars, bulkVars >>

\* lines 222-265, what one turn of the loop can come to for the entry info
\* with the files fs: the calls made, the entry appended (none when the
\* turn raises), the files afterwards
SaveItemOutcomes(info, fs) ==
  LET fetch == << "get_email_by_id_with_attachments", info.message_id >>
      known == info.part_id \in DOMAIN EmailAttachments(info.message_id)
      attachment_id == EmailAttachments(info.message_id)[info.part_id]
      get == << "get_attachment", info.message_id, attachment_id >>
      Out(cs, entry, raised, f) ==
        [calls |-> cs, entry |-> entry, raised |-> raised, files |-> f]
  IN  { Out(<< fetch >>, << TextContent(FailedMessageText(info.message_id)) >>, FALSE, fs) }
        \cup (IF ~known
                THEN { Out(<< fetch >>, <<>>, TRUE, fs) }
                ELSE { Out(<< fetch, get >>,
                           << TextContent(FailedAttachmentText(attachment_id,
                                                               info.message_id)) >>,
                           FALSE, fs) }
                       \cup UNION {
                            IF decode_base64_data(d) = B64Error
                              THEN { Out(<< fetch, get >>,
                                         << TextContent(FailedSaveText(info.save_path,
                                                                       "binascii.Error")) >>,
                                         FALSE, fs) }
                              ELSE { Out(<< fetch, get >>,
                                         << TextContent(IF w.ok
                                                          THEN SavedToText(info.save_path)
                                                          ELSE FailedSaveText(info.save_path,
                                                                              "OSError")) >>,
                                         FALSE, w.files) :
                                     w \in WriteOutcomes(info.save_path,
                                                         decode_base64_data(d).bytes, fs) }
                            : d \in AttData })

\* lines 220-265, one turn of the loop; an entry whose part id the message
\* does not list makes line 234 raise, which ends the tool
bulk_save_item ==
  /\ tpc = "save_loop"
  /\ Len(tresults) < Len(targs.attachments)
  /\ \E o \in SaveItemOutcomes(targs.attachments[Len(tresults) + 1], files) :
       /\ calls' = calls \o o.calls
       /\ files' = o.files
       /\ tresults' = tresults \o o.entry
       /\ IF o.raised
            THEN tpc' = "done" /\ tret' = RaiseT("KeyError")
            ELSE UNCHANGED << tpc, tret >>
  /\ UNCHANGED << targs, authVars, bulkVars >>

\* line 267: return results
bulk_save_return ==
  /\ tpc = "save_loop"
  /\ Len(tresults) = Len(targs.attachments)
  /\ tret' = [kind |-> "list", list |-> tresults]
  /\ tpc' = "done"
  /\ UNCHANGED << targs, calls, files, tresults, authVars, bulkVars >>

InitTools ==
  /\ AuthOff
  /\ BulkOff
  /\ tpc = "idle"
  /\ targs = <<>>
  /\ calls = <<>>
  /\ files = [p \in SavePaths |-> NoFile]
  /\ tresults = <<>>
  /\ tret = NoRet

NextTools ==
  \/ reply_gmail_email
  \/ reply_get_original
  \/ create_reply
  \/ get_gmail_attachment
  \/ get_attachment
  \/ save_to_disk
  \/ bulk_save_gmail_attachments
  \/ bulk_save_item
  \/ bulk_save_return

SpecTools == InitTools /\ [][NextTools]_vars

(* ------------------------------ the claims ----------------------------- *)
\* the invocation c entered setup_oauth2
Entered(c) == Count(ev[c], "get_account_info") > 0

\* setup_oauth2 returned to the invocation c
Returned(c) == Count(ev[c], "return") > 0

\* the calls c made to the provider and the store, by kind
ProviderCalls(c) ==
  Count(ev[c], "refresh") + Count(ev[c], "get_user_info") + Count(ev[c], "exchange")

FlowSteps(c) ==
  Count(ev[c], "get_authorization_url") + Count(ev[c], "open")
    + Count(ev[c], "bind") + Count(ev[c], "bind_failed")

\* C1: on the running server (the tools server.py registers), a service
\* operation runs for an identity only after the authorization check
\* (setup_oauth2) ran to completion in the same invocation.
C1_AuthBeforeOperation ==
  \A c \in Callers :
    (style[c] = "registered" /\ funcCalls[c] # <<>>) => Returned(c)

\* C2, as stated: an identity that is not in the configured account list makes
\* setup_oauth2 fail with the unknown-account error, with no load, save,
\* provider call or interactive flow.
C2_UnknownAccountError ==
  \A c \in Callers :
    (Entered(c) /\ user_id[c] \notin accounts)
      => /\ outcome[c] = Raise(ErrUnknown)
         /\ ev[c] = << E("get_account_info", "") >>

\* C2, amended: an identity that is not in the configured account list makes
\* setup_oauth2 fail, with the unknown-account error when the list holds
\* accounts and with the no-accounts error when the list is empty; in both
\* cases nothing but the account list is read: no load, no save, no provider
\* call, no interactive flow, and the wrapped operation does not run.
C2_UnknownAccountFails ==
  \A c \in Callers :
    (Entered(c) /\ user_id[c] \notin accounts)
      => /\ pc[c] = "done"
         /\ outcome[c] = Raise(IF accounts = {} THEN ErrNoAccounts ELSE ErrUnknown)
         /\ ev[c] = << E("get_account_info", "") >>
         /\ funcCalls[c] = <<>>

C2_Witness ==
  \E c \in Callers :
    /\ accounts = {"a@x.com"}
    /\ user_id[c] = "b@x.com"
    /\ outcome[c] = Raise(ErrUnknown)

\* C3: a call that loaded a stored credential which is not expired
\* (expiry > now) makes no call to the provider: no refresh exchange and no
\* other request.
C3_NoProviderCall ==
  \A c \in Callers :
    (/\ Count(ev[c], "get_stored_credentials") > 0
     /\ credentials[c].present
     /\ ~expiredAtLoad[c]
     /\ now < credentials[c].expiry
     /\ Count(ev[c], "refresh") = 0)
      => ProviderCalls(c) = 0

C5_RefreshFailureSurfaces ==
  [][\A c \in Callers :
       (/\ Count(ev[c]', "refresh") = Count(ev[c], "refresh") + 1
        /\ credentials[c]' = credentials[c])
         => /\ pc[c]' = "done"
            /\ outcome[c]' = Raise(ErrRefresh)
            /\ store' = store
            /\ server' = server
            /\ ProviderCalls(c)' = 1
            /\ FlowSteps(c)' = 0
            /\ Count(ev[c]', "store_credentials") = 0
            /\ funcCalls[c]' = <<>>
    ]_vars

C5_Witness ==
  \E c \in Callers :
    /\ outcome[c] = Raise(ErrRefresh)
    /\ pc[c] = "done"
    /\ Count(ev[c], "refresh") = 1
    /\ FlowSteps(c) = 0
    /\ store[user_id[c]] = Cred(InitExpiry)

C7_GuardPassesThrough ==
  \A c \in Callers :
    style[c] = "decorated"
      => /\ Len(funcCalls[c]) <= 1
         /\ funcCalls[c] # <<>>
              => /\ Returned(c)
                 /\ funcCalls[c][1] = [args |-> call[c].args, kwargs |-> call[c].kwargs]
                 /\ outcome[c] = Return([result_of |-> call[c]])
         /\ (pc[c] = "done" /\ Returned(c))
              => /\ Len(funcCalls[c]) = 1
                 /\ outcome[c].kind = "return"
         /\ (pc[c] = "done" /\ ~Returned(c))
              => /\ outcome[c].kind = "raise"
                 /\ funcCalls[c] = <<>>

C7_Witness ==
  \E c \in Callers :
    /\ style[c] = "decorated"
    /\ pc[c] = "done"
    /\ Returned(c)
    /\ funcCalls[c] = << call[c] >>
    /\ call[c].kwargs["query"] = "q"

\* C8: a guarded call with no identity keyword, or an empty one, fails with
\* the missing-identity error and does nothing else: setup_oauth2 is not
\* entered, nothing is read or written, the wrapped operation does not run.
C8_MissingIdentity ==
  \A c \in Callers :
    (/\ style[c] = "decorated"
     /\ \/ USER_ID_ARG \notin DOMAIN call[c].kwargs
        \/ call[c].kwargs[USER_ID_ARG] = "")
      => /\ pc[c] = "done"
         /\ outcome[c] = Raise(ErrMissing)
         /\ ev[c] = <<>>
         /\ funcCalls[c] = <<>>

C8_Witness ==
  \E c \in Callers :
    /\ style[c] = "decorated"
    /\ USER_ID_ARG \in DOMAIN call[c].kwargs
    /\ call[c].kwargs[USER_ID_ARG] = ""
    /\ outcome[c] = Raise(ErrMissing)

\* the listener handles a request in this step
Handles == requests' = requests + 1

\* the step leaves the listener serving: same server, flag down, no new
\* shutdown thread; and it exchanges nothing and writes no credential
ListenerUntouched ==
  /\ server' = server
  /\ server' # 0
  /\ ~shutdown_request'
  /\ threads' = threads
  /\ ev' = ev
  /\ store' = store
  /\ pc' = pc

\* C9: a GET whose path is not /code is answered 404, exchanges no code,
\* writes no credential and leaves the listener serving, however many such
\* requests came before.
C9_OtherPath404 ==
  [][(Handles /\ lastReq'.path # "/code")
       => (lastReq'.status = 404 /\ ListenerUntouched)]_vars

C9_Witness ==
  /\ server # 0
  /\ requests = 2
  /\ lastReq.path = "/other"
  /\ lastReq.query = << <<"code", "XYZ">> >>
  /\ lastReq.status = 404
  /\ Count(ev[server], "exchange") = 0

\* C10: a GET /code whose query carries no code value is answered 400,
\* exchanges no code, writes no credential and leaves the listener serving.
C10_NoCode400 ==
  [][(/\ Handles
      /\ lastReq'.path = "/code"
      /\ \A i \in DOMAIN lastReq'.query :
           lastReq'.query[i][1] # "code" \/ lastReq'.query[i][2] = "")
       => (lastReq'.status = 400 /\ ListenerUntouched)]_vars

C10_Witness ==
  /\ server # 0
  /\ lastReq.path = "/code"
  /\ lastReq.query = <<>>
  /\ lastReq.status = 400
  /\ Count(ev[server], "exchange") = 0

\* C11: a GET /code request with a code makes the listener send the 200
\* response and flush it, then exchange the code and store the credential,
\* and only then start the shutdown thread: every start of the shutdown
\* thread comes right after the response, its flush, the accepted exchange
\* and the store, in this order, and no shutdown is pending or requested
\* unless the thread was started that way.
C11_HandlerOrder ==
  \A c \in Callers :
    /\ \A i \in Pos(ev[c], "thread_start") :
         /\ i > 4
         /\ ev[c][i - 4] = E("respond", "200")
         /\ ev[c][i - 3] = E("flush", "")
         /\ ev[c][i - 2][1] = "exchange"
         /\ CodeAccepted(ev[c][i - 2][2])
         /\ ev[c][i - 1] = E("store_credentials", CodeOwner(ev[c][i - 2][2]))
    /\ (server = c /\ (threads > 0 \/ shutdown_request))
         => Pos(ev[c], "thread_start") # {}

C11_Witness ==
  \E c \in Callers :
    /\ server = c
    /\ threads > 0
    /\ lastReq.status = 200
    /\ Pos(ev[c], "thread_start") # {}
    /\ store[CodeOwner("XYZ")] = Issued(now)

\* C12: two concurrent calls for the same expired identity make at most one
\* refresh exchange in total.
C12_OneRefreshPerIdentity ==
  \A c, d \in Callers :
    (/\ c # d
     /\ user_id[c] = user_id[d]
     /\ expiredAtLoad[c]
     /\ expiredAtLoad[d])
      => Count(ev[c], "refresh") + Count(ev[d], "refresh") <= 1

\* C13: a call for one identity does not fail because a call for another
\* identity is in flight: it never ends with the bind error while the other
\* call's listener holds the callback port.
C13_OtherIdentityUnaffected ==
  \A c, d \in Callers :
    (/\ c # d
     /\ user_id[c] # user_id[d]
     /\ server = d
     /\ pc[d] = "serve_forever")
      => outcome[c] # Raise(ErrBind)

\* C14: a flow started while another flow's listener is up fails without
\* effects: it has opened no authorization URL and attempted no bind.
C14_SecondFlowNoEffects ==
  \A c \in Callers :
    (/\ Count(ev[c], "get_authorization_url") > 0
     /\ outcome[c].kind = "raise")
      => /\ Count(ev[c], "open") = 0
         /\ Count(ev[c], "bind") + Count(ev[c], "bind_failed") = 0

\* C15: a stored credential is never removed, and it changes only by being
\* replaced by the credential a refresh or a code exchange has just yielded.
C15_StoreOnlyRenewed ==
  [][\A i \in Identities :
       /\ store[i].present => store[i]'.present
       /\ store[i]' # store[i] => \E t \in 0..now : store[i]' = Issued(t)
    ]_vars

\* C16: once a call for an expired identity has refreshed the credential,
\* stored it and returned, a following call for the same identity, made
\* before the new expiry, makes no exchange with the provider: no refresh
\* exchange and no code exchange.
C16_NoExchangeAfterRefresh ==
  \A c, d \in Callers :
    (/\ c \in returnedBefore[d]
     /\ user_id[c] = user_id[d]
     /\ expiredAtLoad[c]
     /\ Count(ev[c], "refresh") = 1
     /\ Count(ev[c], "store_credentials") = 1)
      => /\ Count(ev[d], "refresh") + Count(ev[d], "exchange") = 0
         /\ FlowSteps(d) = 0
         /\ Count(ev[d], "get_stored_credentials") > 0
              => (credentials[d] = credentials[c] /\ now < credentials[d].expiry)

C16_Witness ==
  \E c, d \in Callers :
    /\ c \in returnedBefore[d]
    /\ user_id[c] = user_id[d]
    /\ expiredAtLoad[c]
    /\ Count(ev[c], "refresh") = 1
    /\ Returned(d)
    /\ Count(ev[d], "get_user_info") = 1
    /\ Count(ev[d], "refresh") = 0

\* the listener of c's flow handled a GET /code request with a code
CodeCallback(c) == Count(ev[c], "exchange") > 0

\* the listener of c's flow handled a GET /code request with a code the
\* provider accepted
AcceptedCallback(c) ==
  \E i \in Pos(ev[c], "exchange") : CodeAccepted(ev[c][i][2])

RejectedCallback(c) ==
  \E i \in Pos(ev[c], "exchange") : ~CodeAccepted(ev[c][i][2])

\* C18: every authorization failure surfaces as a failure of the invocation
\* it belongs to; for the interactive flow: an invocation whose flow failed
\* at the code exchange eventually ends by raising.
C18_FailedFlowSurfaces ==
  \A c \in Callers : RejectedCallback(c) ~> (outcome[c].kind = "raise")

\* a credential all of whose fields come from one write
Complete(cr) == cr = NoCred \/ (cr.present /\ cr.token = cr.expiry /\ cr.expiry > 0)

RECURSIVE FoundEmails(_)
FoundEmails(k) ==
  IF k = 0 THEN <<>>
  ELSE IF found[k]
    THEN Append(FoundEmails(k - 1),
                [id |-> fetched[k], attachments |-> ServiceAttachments(fetched[k], k)])
    ELSE FoundEmails(k - 1)

\* C20: bulk_get_gmail_emails fetches each requested id once, in input
\* order; a message that is not found is skipped and the rest is still
\* fetched; it returns the messages found, in the order of their ids in the
\* input, each with its own attachments, as a list, or the fixed failure
\* text when none was found.
C20_BulkGet ==
  /\ Len(fetched) <= Len(email_ids)
  /\ fetched = SubSeq(email_ids, 1, Len(fetched))
  /\ Len(found) = Len(fetched)
  /\ results = FoundEmails(Len(fetched))
  /\ bpc = "done"
       => /\ fetched = email_ids
          /\ ret = IF \A k \in DOMAIN found : ~found[k]
                     THEN Text(FailedBulkText)
                     ELSE Dumps(FoundEmails(Len(email_ids)))

C20_Witness ==
  /\ bpc = "done"
  /\ email_ids = << "e1", "e2", "e1" >>
  /\ found = << TRUE, FALSE, TRUE >>
  /\ ret.kind = "json"
  /\ Len(ret.list) = 2
  /\ ret.list[2].attachments = ServiceAttachments("e1", 3)

\* C24: decode_base64_data reads '-' and '_' as '+' and '/', pads the data
\* with '=' to a multiple of four characters, gives for data without padding
\* what it gives for the same data padded, and raises for data with a
\* character outside the base64 alphabet.
C24_DecodeBase64 ==
  tpc = "done" =>
    LET s == targs
        std == [i \in DOMAIN s |->
                 IF s[i] = "-" THEN "+" ELSE IF s[i] = "_" THEN "/" ELSE s[i]]
        padded == s \o [i \in 1..((4 - (Len(s) % 4)) % 4) |-> "="]
    IN  /\ tret = decode_base64_data(std)
        /\ Len(Pad(s)) % 4 = 0
        /\ (\A i \in DOMAIN s : s[i] # "=")
             => /\ tret = decode_base64_data(padded)
                /\ tret = b64decode(UrlToStandard(padded))
        /\ (\E i \in DOMAIN s : s[i] = "!") => tret = B64Error

C24_Witness ==
  /\ tpc = "done"
  /\ targs = << "-", "_" >>
  /\ tret = Bytes(<< 251 >>)

\* the tool `name` was called
Running(name) == tpc # "idle" /\ targs.tool = name

\* C21: bulk_save_gmail_attachments returns one entry per requested
\* attachment, in input order, whatever fails for an entry, and a file
\* exists at a save_path only if an entry reports it saved.
C21_OneEntryPerAttachment ==
  (Running("bulk_save_gmail_attachments") /\ tpc = "done")
    => /\ tret.kind = "list"
       /\ Len(tret.list) = Len(targs.attachments)
       /\ \A p \in SavePaths :
            files[p].exists
              => \E k \in DOMAIN tret.list :
                   /\ targs.attachments[k].save_path = p
                   /\ tret.list[k] = TextContent(SavedToText(p))

\* C22: reply_gmail_email fetches the original message first and calls
\* create_reply only if it was found, with that message and the caller's
\* send and cc; when the original is not found it returns the not-found text
\* and no reply is created; when create_reply fails the text says send if
\* send was true and draft otherwise.
C22_ReplyAfterOriginal ==
  Running("reply_gmail_email")
    => /\ Len(calls) <= 2
       /\ calls # <<>>
            => calls[1] = << "get_email_by_id_with_attachments", targs.original_message_id >>
       /\ Len(calls) = 2
            => /\ tresults = << ServiceEmail(targs.original_message_id) >>
               /\ calls[2] = << "create_reply", targs.original_message_id,
                                targs.send, targs.cc >>
       /\ tpc = "done"
            => IF tresults = <<>>
                 THEN /\ Len(calls) = 1
                      /\ tret = Text(<< "Failed to retrieve original message with ID: ",
                                        targs.original_message_id >>)
                 ELSE /\ Len(calls) = 2
                      /\ tret.kind \in {"text", "json"}
                      /\ tret.kind = "text"
                           => tret.text = IF targs.send
                                            THEN "Failed to send reply email"
                                            ELSE "Failed to draft reply email"

C22_Witness ==
  /\ Running("reply_gmail_email")
  /\ tpc = "done"
  /\ ~targs.send
  /\ Len(calls) = 2
  /\ tret = Text("Failed to draft reply email")

\* C23, as stated: with save_to_disk and an attachment that was found,
\* get_gmail_attachment writes the decoded bytes to the path and returns the
\* saved-to-disk text.
C23_SaveWritesAndReturns ==
  (/\ Running("get_gmail_attachment")
   /\ tpc = "done"
   /\ Truthy(targs.save_to_disk)
   /\ tresults # <<>>)
    => /\ files[targs.save_to_disk] = File(decode_base64_data(tresults[1]).bytes)
       /\ tret = Text(SavedToDiskText(targs.save_to_disk))

\* C23, amended: get_gmail_attachment touches no file unless a non-empty
\* save_to_disk is given and the attachment was found, and then no file but
\* that one. With save_to_disk: data that does not decode makes the call
\* raise with nothing written; otherwise the saved-to-disk text is returned
\* exactly when the file holds the decoded bytes, and the call raises when
\* the write fails. Without save_to_disk no file is written and the resource
\* returned carries the service's data unchanged. When the attachment is not
\* found nothing is written and the failure text is returned.
C23_WritesOnlyOnSave ==
  Running("get_gmail_attachment")
    => /\ \A p \in SavePaths :
            files[p].exists
              => (tpc = "done" /\ tresults # <<>> /\ p = targs.save_to_disk)
       /\ tpc = "done"
            => IF tresults = <<>>
                 THEN tret = Text(<< "Failed to retrieve attachment with ID: ",
                                     targs.attachment_id, " from message: ",
                                     targs.message_id >>)
               ELSE IF targs.save_to_disk \in {None, ""}
                 THEN /\ tret.kind = "resource"
                      /\ tret.blob = tresults[1]
               ELSE LET d == decode_base64_data(tresults[1])
                        saved == Text(<< "Attachment saved to disk: ", targs.save_to_disk >>)
                    IN  /\ d = B64Error
                             => /\ tret.kind = "raise"
                                /\ ~files[targs.save_to_disk].exists
                        /\ d # B64Error
                             => /\ tret = saved \/ tret.kind = "raise"
                                /\ tret = saved <=> files[targs.save_to_disk] = File(d.bytes)

C23_Witness ==
  /\ Running("get_gmail_attachment")
  /\ tpc = "done"
  /\ targs.save_to_disk = "/p1"
  /\ tresults = << << "-", "_" >> >>
  /\ files["/p1"] = File(<< 251 >>)
  /\ tret = Text(SavedToDiskText("/p1"))

\* C25: a call that loaded a stored credential makes one user-info request
\* and then one store of the credential, expired at load or not; the store
\* comes right after the user-info request and only when that request and
\* the refresh before it did not fail.
C25_VerifyThenSave ==
  \A c \in Callers :
    (credentials[c].present /\ FlowSteps(c) = 0)
      => /\ Count(ev[c], "get_user_info") <= 1
         /\ Count(ev[c], "store_credentials") <= 1
         /\ \A i \in Pos(ev[c], "store_credentials") :
              /\ i > 1
              /\ ev[c][i - 1] = E("get_user_info", user_id[c])
              /\ ev[c][i] = E("store_credentials", user_id[c])
         /\ (pc[c] \in {"authorized", "done"} /\ outcome[c].kind # "raise")
              => /\ Count(ev[c], "get_user_info") = 1
                 /\ Count(ev[c], "store_credentials") = 1
         /\ outcome[c].kind = "raise" => Count(ev[c], "store_credentials") = 0

C25_Witness ==
  \E c \in Callers :
    /\ credentials[c].present
    /\ ~expiredAtLoad[c]
    /\ Count(ev[c], "refresh") = 0
    /\ Returned(c)
    /\ Count(ev[c], "get_user_info") = 1
    /\ Count(ev[c], "store_credentials") = 1

\* C26: within one interactive flow at most one credential comes out of
\* the listener: at most one code exchange succeeds and at most one
\* credential is stored.
C26_ListenerSingleUse ==
  \A c \in Callers :
    FlowSteps(c) > 0 => Count(ev[c], "store_credentials") <= 1

\* C27: when setup_oauth2 has returned for an identity, the store holds a
\* credential for that identity.
C27_CredentialForCaller ==
  \A c \in Callers : Returned(c) => store[user_id[c]].present

\* C28: when the provider rejects the code of a callback, the handler has
\* sent and flushed the 200 response before the exchange, stores no
\* credential and starts no shutdown thread; as long as no accepted code
\* has come, the call stays blocked in the serving loop with no outcome,
\* the listener stays bound and its shutdown flag stays down.
C28_RejectedCodeKeepsListening ==
  \A c \in Callers :
    /\ \A i \in Pos(ev[c], "exchange") :
         /\ i > 2
         /\ ev[c][i - 2] = E("respond", "200")
         /\ ev[c][i - 1] = E("flush", "")
         /\ ~CodeAccepted(ev[c][i][2])
              => (i = Len(ev[c])
                    \/ ev[c][i + 1][1] \notin {"store_credentials", "thread_start"})
    /\ (RejectedCallback(c) /\ ~AcceptedCallback(c))
         => /\ pc[c] = "serve_forever"
            /\ server = c
            /\ outcome[c] = NoOutcome
            /\ ~Returned(c)
            /\ threads = 0
            /\ ~shutdown_request
            /\ Count(ev[c], "store_credentials") = 0
            /\ Count(ev[c], "thread_start") = 0

C28_Witness ==
  \E c \in Callers :
    /\ RejectedCallback(c)
    /\ ~AcceptedCallback(c)
    /\ lastReq.status = 200
    /\ store = [i \in Identities |-> NoCred]
    /\ requests = 1

\* C29: a decorated call that passes the identity positionally and not as
\* the keyword argument __user_id__ fails as missing identity; setup_oauth2
\* does not run and the wrapped operation does not run.
C29_PositionalIdentityRejected ==
  \A c \in Callers :
    (/\ style[c] = "decorated"
     /\ call[c].args # <<>>
     /\ USER_ID_ARG \notin DOMAIN call[c].kwargs)
      => /\ pc[c] = "done"
         /\ outcome[c] = Raise(ErrMissing)
         /\ ev[c] = <<>>
         /\ funcCalls[c] = <<>>

C29_Witness ==
  \E c \in Callers :
    /\ style[c] = "decorated"
    /\ call[c].args = << "a@x.com" >>
    /\ "a@x.com" \in accounts
    /\ outcome[c] = Raise(ErrMissing)

\* C30: in the interactive flow the authorization URL is built and opened
\* before the listener is bound: every bind, failed or not, comes right
\* after the opening; between the opening and the bind the flow has no
\* listener, so that no request reaches it, and a call that failed on the
\* bind has opened the URL.
C30_OpenBeforeBind ==
  \A c \in Callers :
    /\ \A i \in Pos(ev[c], "bind") \cup Pos(ev[c], "bind_failed") :
         /\ i > 2
         /\ ev[c][i - 1] = E("open", user_id[c])
         /\ ev[c][i - 2] = E("get_authorization_url", user_id[c])
    /\ pc[c] = "HTTPServer"
         => /\ Count(ev[c], "open") = 1
            /\ server # c
            /\ Count(ev[c], "respond") = 0
            /\ Count(ev[c], "exchange") = 0
    /\ outcome[c] = Raise(ErrBind) => Count(ev[c], "open") = 1

C30_Witness ==
  \E c \in Callers :
    /\ outcome[c] = Raise(ErrBind)
    /\ Count(ev[c], "open") = 1
    /\ Count(ev[c], "bind_failed") = 1

====
